---- MODULE Spec2Model ----
(***************************************************************************)
(* Label placement of the body diagram (src/src/components/OrganSvg.tsx).  *)
(*                                                                         *)
(* The file holds two variants of OrganMarkersContainer:                   *)
(*   - the curved-connector variant (lines 165-343): adjustedPositions,    *)
(*     resolveSide, the source de-collision pass;                          *)
(*   - the elbow-connector variant (lines 674-771): gridPositions,         *)
(*     adjustSide.                                                         *)
(* Both are modelled as functions of the props of BodyOrganSvg             *)
(* (highlightedOrgans, organDetails) and of its markerPositions state.     *)
(*                                                                         *)
(* Numbers: the code computes in percentages with decimals (6.5, 3.2,      *)
(* 1.5, halves of heights, a quotient by n-1 <= 7).  The model uses exact  *)
(* fixed point: one percent is Unit = 8400 model units, so that a tenth,   *)
(* a twentieth and every quotient of a tenth by 1..7 is an integer.        *)
(* Floating point rounding is not modelled.                                *)
(*                                                                         *)
(* Strings are TLA+ strings; a character is a string of length 1.          *)
(***************************************************************************)
EXTENDS Integers, Sequences, FiniteSets, TLC

VARIABLES
    svgGeometry,        \* bounding-box centres of the organ groups of the loaded SVG
    svgReady,           \* BodyOrganSvg state svgReady
    markerPositions,    \* BodyOrganSvg state markerPositions
    highlightedOrgans,  \* prop highlightedOrgans: sequence of strings
    normalizedHighlights, \* value of the normalizedHighlights memo
    organDetails,       \* prop organDetails: function from strings to strings
    adjustedPositions,  \* curved variant: value of the adjustedPositions memo
    gridPositions,      \* elbow variant: value of the gridPositions memo
    detail,             \* estimateLabelHeight: argument
    estimate,           \* estimateLabelHeight: returned value (-1 before the call)
    argCenter,        \* clampCenterWithHeight: argument center
    argHeight,        \* clampCenterWithHeight: argument height
    argClamped,        \* clampCenterWithHeight: [called, value]
    analysisResult,     \* App state analysisResult (NoResult for null)
    isAnalyzing,        \* App state isAnalyzing
    showInput,          \* App state showInput
    patientName,        \* InputPanel state patientName
    doctorName,         \* InputPanel state doctorName
    description,        \* InputPanel state description
    hasConsent,         \* InputPanel state hasConsent
    requests            \* the calls of handleAnalyze so far, each with its position

svgVars ==
    <<svgGeometry, svgReady, markerPositions, highlightedOrgans, normalizedHighlights,
      organDetails, adjustedPositions, gridPositions, detail, estimate>>

clampVars == <<argCenter, argHeight, argClamped>>

appVars == <<analysisResult, isAnalyzing, showInput, patientName, doctorName, description,
             hasConsent, requests>>

vars == <<svgGeometry, svgReady, markerPositions, highlightedOrgans, normalizedHighlights,
          organDetails,
          adjustedPositions, gridPositions, detail, estimate, clampVars, appVars>>

----------------------------------------------------------------------------
(* Fixed point *)

Tenth == 2 * 420
Unit == 10 * Tenth

Max(a, b) == IF a >= b THEN a ELSE b
Min(a, b) == IF a <= b THEN a ELSE b
Abs(a) == IF a < 0 THEN -a ELSE a

----------------------------------------------------------------------------
(* Strings *)

RECURSIVE Rep(_, _)
Rep(s, n) ==
    IF n <= 0 THEN ""
    ELSE IF n = 1 THEN s
    ELSE LET half == Rep(s, n \div 2)
         IN  half \o half \o (IF n % 2 = 1 THEN s ELSE "")

CharAt(s, i) == SubSeq(s, i, i)

UpperCase == "ABCDEFGHIJKLMNOPQRSTUVWXYZ"
LowerCase == "abcdefghijklmnopqrstuvwxyz"

UpperChars == {CharAt(UpperCase, j) : j \in 1..Len(UpperCase)}
LowerOf == [c \in UpperChars |->
               CharAt(LowerCase, CHOOSE j \in 1..Len(UpperCase) : CharAt(UpperCase, j) = c)]

LowerChar(c) == IF c \in UpperChars THEN LowerOf[c] ELSE c

RECURSIVE toLowerCase(_)
toLowerCase(s) ==
    IF Len(s) = 0 THEN ""
    ELSE IF Len(s) = 1 THEN LowerChar(s)
    ELSE LET mid == Len(s) \div 2
         IN  toLowerCase(SubSeq(s, 1, mid)) \o toLowerCase(SubSeq(s, mid + 1, Len(s)))

\* String.prototype.includes
includes(s, sub) ==
    \E i \in 1..(Len(s) - Len(sub) + 1) : SubSeq(s, i, i + Len(sub) - 1) = sub

\* the characters matched by \s and removed by trim() that the inputs use
IsWhitespace(c) == c \in {" ", "\t", "\n", "\r"}

\* detail.replace(/\s+/g, ' '): the leftmost maximal whitespace run is replaced by one
\* space and the replacement goes on after it
RECURSIVE replaceWhitespaceRuns(_)
replaceWhitespaceRuns(s) ==
    LET ws == {i \in 1..Len(s) : IsWhitespace(CharAt(s, i))}
    IN  IF ws = {} THEN s
        ELSE LET first == CHOOSE i \in ws : \A j \in ws : i <= j
                 last == CHOOSE e \in ws :
                             /\ e >= first
                             /\ \A j \in first..e : j \in ws
                             /\ (e + 1) \notin ws
             IN  SubSeq(s, 1, first - 1) \o " "
                 \o replaceWhitespaceRuns(SubSeq(s, last + 1, Len(s)))

RECURSIVE trimStart(_)
trimStart(s) ==
    IF Len(s) > 0 /\ IsWhitespace(CharAt(s, 1)) THEN trimStart(Tail(s)) ELSE s

RECURSIVE trimEnd(_)
trimEnd(s) ==
    IF Len(s) > 0 /\ IsWhitespace(CharAt(s, Len(s)))
    THEN trimEnd(SubSeq(s, 1, Len(s) - 1)) ELSE s

trim(s) == trimEnd(trimStart(s))

----------------------------------------------------------------------------
(* Optional strings: undefined or a string *)

Undefined == [defined |-> FALSE, str |-> ""]
Str(s) == [defined |-> TRUE, str |-> s]

\* JavaScript truthiness of an optional string
Truthy(v) == v.defined /\ Len(v.str) > 0

\* obj[key] on a Record<string, string>
Lookup(obj, key) == IF key \in DOMAIN obj THEN Str(obj[key]) ELSE Undefined

\* a || b
OrElse(a, b) == IF Truthy(a) THEN a ELSE b

----------------------------------------------------------------------------
(* Vocabulary *)

OrganKeys == <<"brain", "heart", "lungs", "liver", "stomach", "kidney", "intestine", "pancreas">>

KeySet == {OrganKeys[i] : i \in 1..Len(OrganKeys)}

ORGAN_LABELS ==
    [brain |-> "Brain", heart |-> "Heart", lungs |-> "Lungs", liver |-> "Liver",
     stomach |-> "Stomach", kidney |-> "Kidneys", intestine |-> "Intestines",
     pancreas |-> "Pancreas"]

\* mutant: the names are not lower-cased
NormalizedHighlights_NoLowerCase(organs) == [i \in 1..Len(organs) |-> organs[i]]

\* lines 67-70: the normalizedHighlights memo
NormalizedHighlights(organs) == [i \in 1..Len(organs) |-> toLowerCase(organs[i])]

\* lines 72-75, over the memoized lower-cased names
isOrganHighlighted(names, organKey) ==
    \E i \in 1..Len(names) : includes(names[i], organKey)

----------------------------------------------------------------------------
(* OrganGridTable: the rows marked as highlighted *)

\* Object.keys(ORGAN_DEFINITIONS)
ORGAN_DEFINITIONS ==
    <<"brain", "heart", "lungs", "liver", "stomach", "kidney", "intestine", "pancreas",
      "sinuses", "throat", "bronchi", "bladder">>

\* mutant: only organKey.includes(name) is tested
organRows_KeyIncludesName(organs) ==
    LET names == NormalizedHighlights(organs)
    IN  [i \in 1..Len(ORGAN_DEFINITIONS) |->
            [organKey |-> ORGAN_DEFINITIONS[i],
             isHighlighted |-> \E n \in 1..Len(names) : includes(ORGAN_DEFINITIONS[i], names[n])]]

\* the organKey and isHighlighted of the rows of the organRows memo
organRows(organs) ==
    LET names == NormalizedHighlights(organs)
    IN  [i \in 1..Len(ORGAN_DEFINITIONS) |->
            [organKey |-> ORGAN_DEFINITIONS[i],
             isHighlighted |-> \E n \in 1..Len(names) :
                                  \/ includes(names[n], ORGAN_DEFINITIONS[i])
                                  \/ includes(ORGAN_DEFINITIONS[i], names[n])]]

----------------------------------------------------------------------------
(* Curved-connector variant: constants and helpers of adjustedPositions *)

LABEL_HEIGHT == 65 * Tenth
MIN_VERTICAL_SPACING == 6 * Unit
MIN_BOUND == 8 * Unit
MAX_BOUND == 92 * Unit
LINE_HEIGHT == 32 * Tenth
CHARS_PER_LINE == 34
MIN_DEGRADED_SPACING == 15 * Tenth
SIDE_THRESHOLD == 55 * Unit
LABEL_OFFSET_X == 36 * Unit

\* mutant: the check against MAX_BOUND comes first
clampCenterWithHeight_UpperFirst(center, height) ==
    LET half == height \div 2
    IN  IF center + half > MAX_BOUND THEN MAX_BOUND - half
        ELSE IF center - half < MIN_BOUND THEN MIN_BOUND + half
        ELSE center

\* mutant: the check against MAX_BOUND is missing
clampCenterWithHeight_NoUpperClamp(center, height) ==
    LET half == height \div 2
    IN  IF center - half < MIN_BOUND THEN MIN_BOUND + half ELSE center

clampCenterWithHeight(center, height) ==
    LET half == height \div 2
    IN  IF center - half < MIN_BOUND THEN MIN_BOUND + half
        ELSE IF center + half > MAX_BOUND THEN MAX_BOUND - half
        ELSE center

getOrganDetail(details, organKey) ==
    OrElse(Lookup(details, organKey), Lookup(details, toLowerCase(ORGAN_LABELS[organKey])))

CeilDiv(a, b) == (a + b - 1) \div b

\* mutant: Math.floor instead of Math.ceil
estimateLabelHeight_Floor(d) ==
    IF ~Truthy(d) THEN LABEL_HEIGHT
    ELSE LET clean == trim(replaceWhitespaceRuns(d.str))
         IN  IF Len(clean) = 0 THEN LABEL_HEIGHT
             ELSE LABEL_HEIGHT + (Len(clean) \div CHARS_PER_LINE) * LINE_HEIGHT

estimateLabelHeight(d) ==
    IF ~Truthy(d) THEN LABEL_HEIGHT
    ELSE LET clean == trim(replaceWhitespaceRuns(d.str))
         IN  IF Len(clean) = 0 THEN LABEL_HEIGHT
             ELSE LABEL_HEIGHT + CeilDiv(Len(clean), CHARS_PER_LINE) * LINE_HEIGHT

----------------------------------------------------------------------------
(* Array helpers *)

Indices(s) == [i \in 1..Len(s) |-> i]

\* Array.prototype.sort with comparator key(a) - key(b): stable, ascending.
\* s is a sequence of elements of DOMAIN key.
RECURSIVE SortBy(_, _)
SortBy(s, key) ==
    IF Len(s) <= 1 THEN s
    ELSE LET rest == SortBy(SubSeq(s, 1, Len(s) - 1), key)
             x == s[Len(s)]
             k == Cardinality({j \in 1..Len(rest) : key[rest[j]] <= key[x]})
         IN  SubSeq(rest, 1, k) \o <<x>> \o SubSeq(rest, k + 1, Len(rest))

RECURSIVE Sum(_)
Sum(s) == IF Len(s) = 0 THEN 0 ELSE Head(s) + Sum(Tail(s))

----------------------------------------------------------------------------
(* Curved-connector variant: adjustedPositions (lines 172-323) *)

\* mutant: the side test is >= instead of >
NewEntry_ThresholdInclusive(organKey, position, details) ==
    LET organCenterX == position.left
        organCenterY == position.top
        isRightSide == organCenterX >= SIDE_THRESHOLD
        labelX == IF isRightSide THEN organCenterX - LABEL_OFFSET_X
                                 ELSE organCenterX + LABEL_OFFSET_X
        dynamicLabelHeight == estimateLabelHeight(getOrganDetail(details, organKey))
    IN  [organKey |-> organKey,
         originalPosition |-> position,
         adjustedPosition |-> [left |-> organCenterX, top |-> organCenterY,
                               labelX |-> labelX,
                               labelY |-> clampCenterWithHeight(organCenterY, dynamicLabelHeight)],
         isRightSide |-> isRightSide,
         labelHeight |-> dynamicLabelHeight]

\* mutant: the label offset is added on both sides
NewEntry_OffsetAdded(organKey, position, details) ==
    LET organCenterX == position.left
        organCenterY == position.top
        isRightSide == organCenterX > SIDE_THRESHOLD
        labelX == organCenterX + LABEL_OFFSET_X
        dynamicLabelHeight == estimateLabelHeight(getOrganDetail(details, organKey))
    IN  [organKey |-> organKey,
         originalPosition |-> position,
         adjustedPosition |-> [left |-> organCenterX, top |-> organCenterY,
                               labelX |-> labelX,
                               labelY |-> clampCenterWithHeight(organCenterY, dynamicLabelHeight)],
         isRightSide |-> isRightSide,
         labelHeight |-> dynamicLabelHeight]

\* the entry pushed for one highlighted organ with a marker position
NewEntry(organKey, position, details) ==
    LET organCenterX == position.left
        organCenterY == position.top
        isRightSide == organCenterX > SIDE_THRESHOLD
        labelX == IF isRightSide THEN organCenterX - LABEL_OFFSET_X
                                 ELSE organCenterX + LABEL_OFFSET_X
        dynamicLabelHeight == estimateLabelHeight(getOrganDetail(details, organKey))
    IN  [organKey |-> organKey,
         originalPosition |-> position,
         adjustedPosition |-> [left |-> organCenterX, top |-> organCenterY,
                               labelX |-> labelX,
                               labelY |-> clampCenterWithHeight(organCenterY, dynamicLabelHeight)],
         isRightSide |-> isRightSide,
         labelHeight |-> dynamicLabelHeight]

\* mutant: the loop runs over the supplied names and pushes an entry per matching key
InitialPositions_ByName(names, markers, details) ==
    LET width == Len(OrganKeys)
        pairs == [p \in 1..(Len(names) * width) |->
                     [name |-> names[((p - 1) \div width) + 1],
                      organKey |-> OrganKeys[((p - 1) % width) + 1]]]
        active == SelectSeq(pairs, LAMBDA q : includes(q.name, q.organKey)
                                              /\ q.organKey \in DOMAIN markers)
    IN  [i \in 1..Len(active) |->
            NewEntry(active[i].organKey, markers[active[i].organKey], details)]

\* mutant: the early return for an organ that is not highlighted is missing
InitialPositions_NoHighlightCheck(names, markers, details) ==
    LET active == SelectSeq(OrganKeys, LAMBDA k : k \in DOMAIN markers)
    IN  [i \in 1..Len(active) |-> NewEntry(active[i], markers[active[i]], details)]

\* the forEach over Object.keys(ORGAN_CLIP_IDS) that fills positions
InitialPositions(names, markers, details) ==
    LET active == SelectSeq(OrganKeys,
                            LAMBDA k : isOrganHighlighted(names, k) /\ k \in DOMAIN markers)
    IN  [i \in 1..Len(active) |-> NewEntry(active[i], markers[active[i]], details)]

\* mutant: the floor Math.max(1.5, ...) is missing
sideSpacing_NoFloor(hs) ==
    LET availableHeight == MAX_BOUND - MIN_BOUND
        totalHeight == Sum(hs) + Max(0, Len(hs) - 1) * MIN_VERTICAL_SPACING
    IN  IF totalHeight > availableHeight
        THEN (availableHeight - Sum(hs)) \div Max(1, Len(hs) - 1)
        ELSE MIN_VERTICAL_SPACING

\* spacing used by resolveSide for label heights hs
sideSpacing(hs) ==
    LET availableHeight == MAX_BOUND - MIN_BOUND
        totalHeight == Sum(hs) + Max(0, Len(hs) - 1) * MIN_VERTICAL_SPACING
    IN  IF totalHeight > availableHeight
        THEN Max(MIN_DEGRADED_SPACING, (availableHeight - Sum(hs)) \div Max(1, Len(hs) - 1))
        ELSE MIN_VERTICAL_SPACING

\* mutant: only overlapping labels are pushed apart (the gap is compared with 0)
RECURSIVE applyForwardSpacing_OnlyOverlaps(_, _, _, _)
applyForwardSpacing_OnlyOverlaps(ys, hs, spacing, i) ==
    IF i > Len(ys) THEN ys
    ELSE LET prevBottom == ys[i - 1] + hs[i - 1] \div 2
             currentTop == ys[i] - hs[i] \div 2
             needed == spacing - (currentTop - prevBottom)
         IN  applyForwardSpacing_OnlyOverlaps(
                 IF currentTop - prevBottom < 0 THEN [ys EXCEPT ![i] = @ + needed] ELSE ys,
                 hs, spacing, i + 1)

\* applyForwardSpacing from index i on; ys are the labelY of sideEntries, hs their heights
RECURSIVE applyForwardSpacing(_, _, _, _)
applyForwardSpacing(ys, hs, spacing, i) ==
    IF i > Len(ys) THEN ys
    ELSE LET prevBottom == ys[i - 1] + hs[i - 1] \div 2
             currentTop == ys[i] - hs[i] \div 2
             needed == spacing - (currentTop - prevBottom)
         IN  applyForwardSpacing(
                 IF currentTop - prevBottom < spacing THEN [ys EXCEPT ![i] = @ + needed] ELSE ys,
                 hs, spacing, i + 1)

\* applyBackwardSpacing from index i down
RECURSIVE applyBackwardSpacing(_, _, _, _)
applyBackwardSpacing(ys, hs, spacing, i) ==
    IF i < 1 THEN ys
    ELSE LET nextTop == ys[i + 1] - hs[i + 1] \div 2
             currentBottom == ys[i] + hs[i] \div 2
             needed == spacing - (nextTop - currentBottom)
         IN  applyBackwardSpacing(
                 IF nextTop - currentBottom < spacing THEN [ys EXCEPT ![i] = @ - needed] ELSE ys,
                 hs, spacing, i - 1)

\* lines 283-291: shift everything up by the overflow of the last label, then backward pass
overflowShift(ys, hs, spacing) ==
    LET n == Len(ys)
        lastBottom == ys[n] + hs[n] \div 2
        overflow == lastBottom - MAX_BOUND
    IN  IF lastBottom > MAX_BOUND
        THEN applyBackwardSpacing([i \in 1..n |-> ys[i] - overflow], hs, spacing, n - 1)
        ELSE ys

\* lines 293-301: shift everything down by the underflow of the first label, then forward pass
underflowShift(ys, hs, spacing) ==
    LET firstTop == ys[1] - hs[1] \div 2
        underflow == MIN_BOUND - firstTop
    IN  IF firstTop < MIN_BOUND
        THEN applyForwardSpacing([i \in 1..Len(ys) |-> ys[i] + underflow], hs, spacing, 2)
        ELSE ys

\* the labelY of sideEntries at the end of resolveSide, for their source tops and heights
\* (both in sorted order, non-empty)
resolveSideCenters(tops, hs) ==
    LET spacing == sideSpacing(hs)
        clamped == [i \in 1..Len(tops) |-> clampCenterWithHeight(tops[i], hs[i])]
        forward == applyForwardSpacing(clamped, hs, spacing, 2)
        shiftedUp == overflowShift(forward, hs, spacing)
        shiftedDown == underflowShift(shiftedUp, hs, spacing)
    IN  [i \in 1..Len(tops) |-> clampCenterWithHeight(shiftedDown[i], hs[i])]

\* mutant: the filter on the side is missing
sideEntries_IgnoreSide(positions, isRightSide) ==
    SortBy(Indices(positions),
           [i \in 1..Len(positions) |-> positions[i].originalPosition.top])

\* indices into positions of the entries of one side, sorted by source top
sideEntries(positions, isRightSide) ==
    SortBy(SelectSeq(Indices(positions), LAMBDA i : positions[i].isRightSide = isRightSide),
           [i \in 1..Len(positions) |-> positions[i].originalPosition.top])

\* resolveSide mutates the labelY of the entries of one side in place
resolveSide(positions, isRightSide) ==
    LET side == sideEntries(positions, isRightSide)
        tops == [j \in 1..Len(side) |-> positions[side[j]].originalPosition.top]
        hs == [j \in 1..Len(side) |-> positions[side[j]].labelHeight]
        ys == resolveSideCenters(tops, hs)
        rank(i) == CHOOSE j \in 1..Len(side) : side[j] = i
    IN  IF Len(side) = 0 THEN positions
        ELSE [i \in 1..Len(positions) |->
                 IF positions[i].isRightSide = isRightSide
                 THEN [positions[i] EXCEPT !.adjustedPosition.labelY = ys[rank(i)]]
                 ELSE positions[i]]

\* mutant: a label exactly on its source is pushed up (<= instead of <)
deCollide_ZeroUp(current) ==
    LET labelY == current.adjustedPosition.labelY
        top == current.originalPosition.top
        distance == Abs(labelY - top)
        pushed == IF distance < LABEL_HEIGHT
                  THEN (IF labelY <= top THEN top - LABEL_HEIGHT - Unit
                                         ELSE top + LABEL_HEIGHT + Unit)
                  ELSE labelY
    IN  [current EXCEPT !.adjustedPosition.labelY =
                            clampCenterWithHeight(pushed, current.labelHeight)]

\* lines 311-320: push a label away from its own source, then re-clamp
deCollide(current) ==
    LET labelY == current.adjustedPosition.labelY
        top == current.originalPosition.top
        distance == Abs(labelY - top)
        pushed == IF distance < LABEL_HEIGHT
                  THEN (IF labelY < top THEN top - LABEL_HEIGHT - Unit
                                        ELSE top + LABEL_HEIGHT + Unit)
                  ELSE labelY
    IN  [current EXCEPT !.adjustedPosition.labelY =
                            clampCenterWithHeight(pushed, current.labelHeight)]

\* positions after resolveSide(true); resolveSide(false), before the de-collision pass
ResolvedPositions(names, markers, details) ==
    resolveSide(resolveSide(InitialPositions(names, markers, details), TRUE), FALSE)

\* the value of the adjustedPositions memo
AdjustedPositions(names, markers, details) ==
    LET resolved == ResolvedPositions(names, markers, details)
    IN  [i \in 1..Len(resolved) |-> deCollide(resolved[i])]

\* mutant: the control point is displaced toward the source instead of the label
OrganMarker_CurveInward(position, isRightSide) ==
    LET organCenterX == position.left
        organCenterY == position.top
        labelX == position.labelX
        labelY == position.labelY
        midX == (organCenterX + labelX) \div 2
        controlPointX == midX + (IF isRightSide THEN 8 * Unit ELSE -8 * Unit)
        controlPointY == (organCenterY + labelY) \div 2
    IN  [path |-> [start |-> <<organCenterX, organCenterY>>,
                   control |-> <<controlPointX, controlPointY>>,
                   end |-> <<labelX, labelY>>],
         marker |-> [left |-> organCenterX, top |-> organCenterY],
         label |-> [left |-> labelX, top |-> labelY]]

\* OrganMarker of the curved variant: the path "M start Q control end", the place of the
\* organ marker and the place of the label container (centered on top by translateY(-50%))
OrganMarker(position, isRightSide) ==
    LET organCenterX == position.left
        organCenterY == position.top
        labelX == position.labelX
        labelY == position.labelY
        midX == (organCenterX + labelX) \div 2
        controlPointX == midX + (IF isRightSide THEN -8 * Unit ELSE 8 * Unit)
        controlPointY == (organCenterY + labelY) \div 2
    IN  [path |-> [start |-> <<organCenterX, organCenterY>>,
                   control |-> <<controlPointX, controlPointY>>,
                   end |-> <<labelX, labelY>>],
         marker |-> [left |-> organCenterX, top |-> organCenterY],
         label |-> [left |-> labelX, top |-> labelY]]

\* the markers OrganMarkersContainer renders for a value of the adjustedPositions memo
CurvedMarkers(positions) ==
    [i \in 1..Len(positions) |->
        OrganMarker(positions[i].adjustedPosition, positions[i].isRightSide)]

----------------------------------------------------------------------------
(* Elbow-connector variant: gridPositions (lines 682-747) *)

cardHeight == 7 * Unit
minVerticalGap == 4 * Unit
topPadding == 3 * Unit
bottomPadding == 3 * Unit
leftNameColumnX == 73 * Unit
rightNameColumnX == 27 * Unit
GRID_SIDE_THRESHOLD == 50 * Unit

halfHeight == cardHeight \div 2
minCenter == topPadding + halfHeight
maxCenter == 100 * Unit - bottomPadding - halfHeight
gridSpacing == cardHeight + minVerticalGap

clampCenter(value) == Min(Max(value, minCenter), maxCenter)

\* mutant: the first item is spaced from minCenter like the others from their predecessor
RECURSIVE forwardCenters_FirstSpaced(_, _)
forwardCenters_FirstSpaced(tops, centers) ==
    LET index == Len(centers) + 1
    IN  IF index > Len(tops) THEN centers
        ELSE LET preferred == clampCenter(tops[index])
                 minAllowed == IF index = 1 THEN minCenter + gridSpacing
                                            ELSE centers[index - 1] + gridSpacing
             IN  forwardCenters_FirstSpaced(tops, Append(centers, Max(preferred, minAllowed)))

\* mutant: the preferred center is the source y itself, not clamped
RECURSIVE forwardCenters_NoClamp(_, _)
forwardCenters_NoClamp(tops, centers) ==
    LET index == Len(centers) + 1
    IN  IF index > Len(tops) THEN centers
        ELSE LET preferred == tops[index]
                 minAllowed == IF index = 1 THEN minCenter
                                            ELSE centers[index - 1] + gridSpacing
             IN  forwardCenters_NoClamp(tops, Append(centers, Max(preferred, minAllowed)))

\* lines 705-709: centers of the forward pass for source tops in sorted order
RECURSIVE forwardCenters(_, _)
forwardCenters(tops, centers) ==
    LET index == Len(centers) + 1
    IN  IF index > Len(tops) THEN centers
        ELSE LET preferred == clampCenter(tops[index])
                 minAllowed == IF index = 1 THEN minCenter
                                            ELSE centers[index - 1] + gridSpacing
             IN  forwardCenters(tops, Append(centers, Max(preferred, minAllowed)))

\* mutant: every item is bounded by minCenter, the previous item is ignored
RECURSIVE overflowLoop_PrevIgnored(_, _, _)
overflowLoop_PrevIgnored(centers, overflow, i) ==
    IF i < 1 \/ overflow <= 0 THEN centers
    ELSE LET prevBound == minCenter
             availableShift == centers[i] - prevBound
             shift == Min(availableShift, overflow)
         IN  IF availableShift <= 0 THEN overflowLoop_PrevIgnored(centers, overflow, i - 1)
             ELSE overflowLoop_PrevIgnored([centers EXCEPT ![i] = @ - shift],
                                           overflow - shift, i - 1)

\* mutant: prevBound forgets the spacing
RECURSIVE overflowLoop_NoSpacing(_, _, _)
overflowLoop_NoSpacing(centers, overflow, i) ==
    IF i < 1 \/ overflow <= 0 THEN centers
    ELSE LET prevBound == IF i = 1 THEN minCenter ELSE centers[i - 1]
             availableShift == centers[i] - prevBound
             shift == Min(availableShift, overflow)
         IN  IF availableShift <= 0 THEN overflowLoop_NoSpacing(centers, overflow, i - 1)
             ELSE overflowLoop_NoSpacing([centers EXCEPT ![i] = @ - shift],
                                         overflow - shift, i - 1)

\* lines 713-720: the body of the overflow-correction loop from index i down
RECURSIVE overflowLoop(_, _, _)
overflowLoop(centers, overflow, i) ==
    IF i < 1 \/ overflow <= 0 THEN centers
    ELSE LET prevBound == IF i = 1 THEN minCenter ELSE centers[i - 1] + gridSpacing
             availableShift == centers[i] - prevBound
             shift == Min(availableShift, overflow)
         IN  IF availableShift <= 0 THEN overflowLoop(centers, overflow, i - 1)
             ELSE overflowLoop([centers EXCEPT ![i] = @ - shift], overflow - shift, i - 1)

\* the centers array of adjustSide at its return, for source tops in sorted order
adjustSideCenters(tops) ==
    LET centers == forwardCenters(tops, <<>>)
        n == Len(centers)
    IN  IF n > 0 /\ centers[n] > maxCenter
        THEN overflowLoop(centers, centers[n] - maxCenter, n)
        ELSE centers

\* the highlighted organs that have a marker position, in vocabulary order
highlightedItems(names, markers) ==
    LET keys == SelectSeq(SelectSeq(OrganKeys, LAMBDA k : isOrganHighlighted(names, k)),
                          LAMBDA k : k \in DOMAIN markers)
    IN  [i \in 1..Len(keys) |-> [organKey |-> keys[i], position |-> markers[keys[i]]]]

adjustSide(items, columnX, isRightSide) ==
    LET sortedItems == [j \in 1..Len(items) |->
                           items[SortBy(Indices(items),
                                        [i \in 1..Len(items) |-> items[i].position.top])[j]]]
        centers == adjustSideCenters([j \in 1..Len(items) |-> sortedItems[j].position.top])
    IN  [j \in 1..Len(items) |->
            [organKey |-> sortedItems[j].organKey,
             organPosition |-> sortedItems[j].position,
             isRightSide |-> isRightSide,
             columnX |-> columnX,
             rowY |-> centers[j]]]

\* the value of the gridPositions memo (columnPositions is not passed by BodyVisualizationMain)
GridPositions(names, markers) ==
    LET highlighted == highlightedItems(names, markers)
        leftAssignments ==
            adjustSide(SelectSeq(highlighted, LAMBDA item : item.position.left <= GRID_SIDE_THRESHOLD),
                       leftNameColumnX, FALSE)
        rightAssignments ==
            adjustSide(SelectSeq(highlighted, LAMBDA item : item.position.left > GRID_SIDE_THRESHOLD),
                       rightNameColumnX, TRUE)
    IN  leftAssignments \o rightAssignments

\* mutant: the elbow is at the height of the source instead of the height of the card
GridOrganMarker_ElbowAtSource(organPosition, gridPosition, isRightSide) ==
    LET organX == organPosition.left
        organY == organPosition.top
        anchorX == gridPosition.columnX
        connectorMidX == (organX + anchorX) \div 2
    IN  [path |-> <<<<anchorX, gridPosition.rowY>>, <<connectorMidX, organY>>,
                    <<organX, organY>>>>,
         marker |-> [left |-> organX, top |-> organY],
         card |-> [x |-> gridPosition.columnX, top |-> gridPosition.rowY]]

\* OrganMarker of the elbow variant: the path "M anchor L elbow L source", the place of
\* the organ marker and the place of the card (its edge at columnX, centered on rowY)
GridOrganMarker(organPosition, gridPosition, isRightSide) ==
    LET organX == organPosition.left
        organY == organPosition.top
        anchorX == gridPosition.columnX
        connectorMidX == (organX + anchorX) \div 2
    IN  [path |-> <<<<anchorX, gridPosition.rowY>>, <<connectorMidX, gridPosition.rowY>>,
                    <<organX, organY>>>>,
         marker |-> [left |-> organX, top |-> organY],
         card |-> [x |-> gridPosition.columnX, top |-> gridPosition.rowY]]

\* the markers OrganMarkersContainer renders for a value of the gridPositions memo
GridMarkers(positions) ==
    [i \in 1..Len(positions) |->
        GridOrganMarker(positions[i].organPosition,
                        [columnX |-> positions[i].columnX, rowY |-> positions[i].rowY],
                        positions[i].isRightSide)]

----------------------------------------------------------------------------
(* Inputs *)

Position(x, y) == [left |-> x * Unit, top |-> y * Unit]

\* source x on both sides of, and exactly on, the two side thresholds (50 and 55)
BrainXs == {50, 55, 60}
HeartXs == {50, 60}
\* source y near both bounds, close together and far apart
PairYs == {5, 30, 31, 50, 60, 76, 89, 90}
TripleYs == {9, 50, 90}

Points(xs, ys) == {Position(x, y) : x \in xs, y \in ys}

\* an SVG in which only the brain and heart groups may exist, each anywhere on the grid
PairGeometries ==
    {[k \in {} |-> Position(0, 0)]}
    \cup {[brain |-> b] : b \in Points(BrainXs, PairYs)}
    \cup {[heart |-> h] : h \in Points(HeartXs, PairYs)}
    \cup {[brain |-> b, heart |-> h] : b \in Points(BrainXs, PairYs), h \in Points(HeartXs, PairYs)}

\* an SVG with three organ groups in the left column
TripleGeometries ==
    {[brain |-> b, heart |-> h, lungs |-> l]
     : b \in Points({40}, TripleYs), h \in Points({40}, TripleYs), l \in Points({40}, TripleYs)}

\* an SVG with all eight organ groups in one column or alternating columns,
\* evenly spaced from a base y, in vocabulary order or in reverse
CrowdBases == {5, 20, 85}
MaxCrowdStep == 2
CrowdSteps == (0..MaxCrowdStep) \cup {11}
CrowdGeometries ==
    {[k \in KeySet |->
        LET i == CHOOSE j \in 1..Len(OrganKeys) : OrganKeys[j] = k
            rank == IF reversed THEN Len(OrganKeys) - i ELSE i - 1
        IN  Position(IF alternate /\ i % 2 = 0 THEN 60 ELSE 40, base + rank * step)]
     : alternate \in BOOLEAN, reversed \in BOOLEAN, base \in CrowdBases, step \in CrowdSteps}

\* two organs of one side with source y 10 and 12; six organs of one side of which the
\* last four share a source y, with two on the other side
ScenarioGeometries ==
    {[brain |-> Position(50, 10), heart |-> Position(50, 12)],
     [brain |-> Position(40, 50), heart |-> Position(40, 65), lungs |-> Position(40, 90),
      liver |-> Position(40, 90), stomach |-> Position(40, 90), kidney |-> Position(40, 90),
      intestine |-> Position(60, 30), pancreas |-> Position(60, 40)]}

Geometries == PairGeometries \cup TripleGeometries \cup CrowdGeometries \cup ScenarioGeometries

\* detail texts by number of wrapped lines
Lines(n) == Rep("a", CHARS_PER_LINE * n)
ShortText == "mild  inflammation\n noted "
NoDetails == [k \in {} |-> ""]

BrainTexts == {"", ShortText, Lines(10), Lines(11), Lines(25)}
HeartTexts == {"", Lines(10)}

\* the props an analysis result gives to BodyOrganSvg
AnalysisResults ==
    {[organs |-> <<>>, organDetails |-> NoDetails],
     [organs |-> <<"Brain">>, organDetails |-> NoDetails],
     [organs |-> <<"spleen", "HEART">>, organDetails |-> [heart |-> ShortText]],
     [organs |-> <<"lungs", "heart", "brain">>,
      organDetails |-> [heart |-> Lines(8), lungs |-> Lines(8)]],
     [organs |-> <<"lungs", "heart", "brain">>, organDetails |-> NoDetails],
     [organs |-> <<"Lung", "heart">>, organDetails |-> NoDetails],
     [organs |-> <<"", "liver">>, organDetails |-> NoDetails],
     [organs |-> <<"heart", "Heart muscle", "brain", "heart">>,
      organDetails |-> [heart |-> ShortText]],
     [organs |-> <<"brain", "heart", "lungs", "liver", "stomach", "kidneys", "Intestines",
                   "pancreas">>,
      organDetails |-> NoDetails],
     [organs |-> <<"brain", "heart", "lungs", "liver", "stomach", "kidneys", "pancreas">>,
      organDetails |-> [kidneys |-> ShortText, brain |-> "   "]]}
    \cup
    {[organs |-> <<"heart", "brain">>, organDetails |-> [brain |-> b, heart |-> h]]
     : b \in BrainTexts, h \in HeartTexts}

MaxChars == 72
Paddings == {"", " ", "\t\n "}
DetailInputs ==
    {Undefined}
    \cup {Str(l \o Rep("a", n) \o r) : l \in Paddings, r \in Paddings, n \in 0..MaxChars}
    \cup {Str(Rep("a", n) \o m \o Rep("b", MaxChars - n)) : m \in Paddings, n \in 1..(MaxChars - 1)}
    \cup {Str(Lines(n)) : n \in {3, 10, 25}}

----------------------------------------------------------------------------
(* Initial values of the state of App, InputPanel and of the clamp arguments *)

\* an optional number, array or object of the API response
NoNumber == [defined |-> FALSE, num |-> 0]
Number(n) == [defined |-> TRUE, num |-> n]
NoArray == [defined |-> FALSE, items |-> <<>>]
Array(items) == [defined |-> TRUE, items |-> items]
NoObject == [defined |-> FALSE, obj |-> [k \in {} |-> ""]]
Object(obj) == [defined |-> TRUE, obj |-> obj]

\* analysisResult = null
NoResult ==
    [present |-> FALSE, diagnosis |-> "", organs |-> <<>>, organDetails |-> [k \in {} |-> ""],
     explanation |-> "", confidence |-> NoNumber, severity |-> "", recommendations |-> <<>>]

\* useState initial values of InputPanel
InputPanelInit ==
    /\ patientName = ""
    /\ doctorName = ""
    /\ description = ""
    /\ hasConsent = FALSE

\* useState initial values of App, with InputPanel mounted and no call of handleAnalyze
AppInit ==
    /\ analysisResult = NoResult
    /\ isAnalyzing = FALSE
    /\ showInput = TRUE
    /\ requests = <<>>
    /\ InputPanelInit

NotClamped == [called |-> FALSE, value |-> 0]

ClampIdle ==
    /\ argCenter = 0
    /\ argHeight = 0
    /\ argClamped = NotClamped

----------------------------------------------------------------------------
(* BodyOrganSvg: state and re-renders *)

Init ==
    /\ AppInit
    /\ ClampIdle
    /\ svgGeometry \in Geometries
    /\ svgReady = FALSE
    /\ markerPositions = NoDetails
    /\ highlightedOrgans = <<>>
    /\ normalizedHighlights = <<>>
    /\ organDetails = NoDetails
    /\ adjustedPositions = <<>>
    /\ gridPositions = <<>>
    /\ detail = Undefined
    /\ estimate = -1

\* both memos are recomputed when one of their dependencies changes
Memoize ==
    /\ adjustedPositions' = AdjustedPositions(normalizedHighlights', markerPositions', organDetails')
    /\ gridPositions' = GridPositions(normalizedHighlights', markerPositions')

\* lines 77-97: the effect that injects the SVG
SvgLoaded ==
    /\ ~svgReady
    /\ svgReady' = TRUE
    /\ UNCHANGED <<svgGeometry, markerPositions, highlightedOrgans, normalizedHighlights,
                   organDetails, adjustedPositions, gridPositions, detail, estimate>>
    /\ UNCHANGED <<clampVars, appVars>>

\* lines 99-130: the effect that measures the organ groups
MeasureMarkers ==
    /\ svgReady
    /\ markerPositions' = svgGeometry
    /\ UNCHANGED <<svgGeometry, svgReady, highlightedOrgans, normalizedHighlights,
                   organDetails, detail, estimate>>
    /\ UNCHANGED <<clampVars, appVars>>
    /\ Memoize

\* the parent renders BodyOrganSvg with the props of a new analysis result; React
\* flushes the pending effects of the previous render (SvgLoaded, MeasureMarkers) first
Render(result) ==
    /\ svgReady
    /\ markerPositions = svgGeometry
    /\ highlightedOrgans' = result.organs
    /\ normalizedHighlights' = NormalizedHighlights(result.organs)
    /\ organDetails' = result.organDetails
    /\ UNCHANGED <<svgGeometry, svgReady, markerPositions, detail, estimate>>
    /\ UNCHANGED <<clampVars, appVars>>
    /\ Memoize

Next ==
    \/ SvgLoaded
    \/ MeasureMarkers
    \/ \E result \in AnalysisResults : Render(result)

Spec == Init /\ [][Next]_vars

----------------------------------------------------------------------------
(* estimateLabelHeight applied to one detail text *)

InitHeight ==
    /\ AppInit
    /\ ClampIdle
    /\ detail \in DetailInputs
    /\ estimate = -1
    /\ svgGeometry = NoDetails
    /\ svgReady = FALSE
    /\ markerPositions = NoDetails
    /\ highlightedOrgans = <<>>
    /\ normalizedHighlights = <<>>
    /\ organDetails = NoDetails
    /\ adjustedPositions = <<>>
    /\ gridPositions = <<>>

Estimate ==
    /\ estimate = -1
    /\ estimate' = estimateLabelHeight(detail)
    /\ UNCHANGED <<svgGeometry, svgReady, markerPositions, highlightedOrgans,
                   normalizedHighlights, organDetails, adjustedPositions, gridPositions, detail>>
    /\ UNCHANGED <<clampVars, appVars>>

NextHeight == Estimate

SpecHeight == InitHeight /\ [][NextHeight]_vars

----------------------------------------------------------------------------
(* clampCenterWithHeight applied to one center and one label height *)

MaxLines == 27
MaxCenter == 110

\* the heights estimateLabelHeight returns for 0..MaxLines wrapped lines, and the
\* height that fills the span between the bounds exactly
ClampHeights ==
    {LABEL_HEIGHT + n * LINE_HEIGHT : n \in 0..MaxLines} \cup {MAX_BOUND - MIN_BOUND}

\* centers from 0 to MaxCenter in steps of half a percent
ClampCenters == {c * (Unit \div 2) : c \in 0..(2 * MaxCenter)}

InitClamp ==
    /\ AppInit
    /\ argCenter \in ClampCenters
    /\ argHeight \in ClampHeights
    /\ argClamped = NotClamped
    /\ detail = Undefined
    /\ estimate = -1
    /\ svgGeometry = NoDetails
    /\ svgReady = FALSE
    /\ markerPositions = NoDetails
    /\ highlightedOrgans = <<>>
    /\ normalizedHighlights = <<>>
    /\ organDetails = NoDetails
    /\ adjustedPositions = <<>>
    /\ gridPositions = <<>>

Clamp ==
    /\ ~argClamped.called
    /\ argClamped' = [called |-> TRUE, value |-> clampCenterWithHeight(argCenter, argHeight)]
    /\ UNCHANGED <<svgGeometry, svgReady, markerPositions, highlightedOrgans,
                   normalizedHighlights, organDetails, adjustedPositions, gridPositions,
                   detail, estimate, argCenter, argHeight>>
    /\ UNCHANGED appVars

NextClamp == Clamp

SpecClamp == InitClamp /\ [][NextClamp]_vars

----------------------------------------------------------------------------
(* App and InputPanel: the form, handleAnalyze and handleClear *)

MaxRequests == 3

\* what the user types into a field
FieldTexts == {"", "a"}

\* JSON bodies the backend may send
EmptyPayload ==
    [diagnosis |-> Undefined, supporting_organs |-> NoArray, organ_details |-> NoObject,
     explanation |-> Undefined, confidence |-> NoNumber, severity |-> Undefined,
     recommendations |-> NoArray, error |-> Undefined]

FullPayload ==
    [diagnosis |-> Str("Gastritis"), supporting_organs |-> Array(<<"stomach", "liver">>),
     organ_details |-> Object([stomach |-> "mild inflammation"]),
     explanation |-> Str("Findings match"), confidence |-> Number(87), severity |-> Str("high"),
     recommendations |-> Array(<<"rest">>), error |-> Undefined]

Payloads ==
    {EmptyPayload,
     FullPayload,
     [EmptyPayload EXCEPT !.error = Str("Model unavailable")],
     [FullPayload EXCEPT !.error = Str("Model unavailable")],
     [FullPayload EXCEPT !.error = Str(""), !.diagnosis = Str("")]}

\* what response.json() gives: a parsed body, or a rejection for a body that is not JSON
NoBody == [valid |-> FALSE, json |-> EmptyPayload]
Bodies == {NoBody} \cup {[valid |-> TRUE, json |-> p] : p \in Payloads}

\* how the promise of fetch settles: rejected, or fulfilled with response.ok false or true
FetchOutcomes == {"rejected", "notOk", "ok"}

\* a call of handleAnalyze suspended at its first await; displayed records whether a
\* result was on screen when the call started
NewRequest(data) ==
    [data |-> data, displayed |-> analysisResult.present, pc |-> "fetch",
     response |-> "pending", body |-> NoBody]

\* the mapping of the API response to the frontend format
mapResponse(apiResult) ==
    [present |-> TRUE,
     diagnosis |-> OrElse(apiResult.diagnosis, Str("No diagnosis available")).str,
     organs |-> IF apiResult.supporting_organs.defined
                THEN apiResult.supporting_organs.items ELSE <<>>,
     organDetails |-> IF apiResult.organ_details.defined
                      THEN apiResult.organ_details.obj ELSE [k \in {} |-> ""],
     explanation |-> OrElse(apiResult.explanation, Str("No explanation provided")).str,
     confidence |-> apiResult.confidence,
     severity |-> OrElse(apiResult.severity, Str("medium")).str,
     recommendations |-> IF apiResult.recommendations.defined
                         THEN apiResult.recommendations.items ELSE <<>>]

\* mutant: the submit button stays enabled during an analysis
submitDisabled_IgnoresAnalyzing == ~hasConsent

\* the disabled attribute of the submit button
submitDisabled == ~hasConsent \/ isAnalyzing

\* the disabled attribute of the Clear button
clearDisabled == isAnalyzing

\* the three required fields pass the browser's validation
requiredFilled == patientName # "" /\ doctorName # "" /\ description # ""

SetPatientName(text) ==
    /\ showInput
    /\ patientName' = text
    /\ UNCHANGED <<analysisResult, isAnalyzing, showInput, doctorName, description, hasConsent,
                   requests>>
    /\ UNCHANGED <<svgVars, clampVars>>

SetDoctorName(text) ==
    /\ showInput
    /\ doctorName' = text
    /\ UNCHANGED <<analysisResult, isAnalyzing, showInput, patientName, description, hasConsent,
                   requests>>
    /\ UNCHANGED <<svgVars, clampVars>>

SetDescription(text) ==
    /\ showInput
    /\ description' = text
    /\ UNCHANGED <<analysisResult, isAnalyzing, showInput, patientName, doctorName, hasConsent,
                   requests>>
    /\ UNCHANGED <<svgVars, clampVars>>

\* the consent checkbox is clicked: checked is the opposite of what it showed
SetHasConsent(checked) ==
    /\ showInput
    /\ checked # hasConsent
    /\ hasConsent' = checked
    /\ UNCHANGED <<analysisResult, isAnalyzing, showInput, patientName, doctorName, description,
                   requests>>
    /\ UNCHANGED <<svgVars, clampVars>>

ToggleInput ==
    /\ showInput' = ~showInput
    /\ UNCHANGED <<analysisResult, isAnalyzing, patientName, doctorName, description, hasConsent,
                   requests>>
    /\ UNCHANGED <<svgVars, clampVars>>

\* handleAnalyze up to its first await
handleAnalyzeStart(data) ==
    /\ isAnalyzing' = TRUE
    /\ requests' = Append(requests, NewRequest(data))
    /\ UNCHANGED analysisResult

\* the form is submitted (submit button or Enter in a field): handleSubmit, then
\* handleAnalyze up to its first await
Submit ==
    /\ showInput
    /\ ~submitDisabled
    /\ requiredFilled
    /\ Len(requests) < MaxRequests
    /\ IF ~hasConsent
       THEN UNCHANGED <<analysisResult, isAnalyzing, requests>>
       ELSE handleAnalyzeStart([patientName |-> patientName, doctorName |-> doctorName,
                                description |-> description])
    /\ UNCHANGED <<showInput, patientName, doctorName, description, hasConsent>>
    /\ UNCHANGED <<svgVars, clampVars>>

\* mutant: the catch block leaves the result as it is
handleAnalyzeCatch_KeepsResult ==
    /\ UNCHANGED analysisResult
    /\ isAnalyzing' = FALSE

\* the catch block followed by the finally block
handleAnalyzeCatch ==
    /\ analysisResult' = NoResult
    /\ isAnalyzing' = FALSE

\* the promise of fetch settles; handleAnalyze runs on to its second await or to its end
FetchSettles(i, outcome) ==
    /\ requests[i].pc = "fetch"
    /\ IF outcome = "ok"
       THEN /\ requests' = [requests EXCEPT ![i].pc = "json", ![i].response = outcome]
            /\ UNCHANGED <<analysisResult, isAnalyzing>>
       ELSE /\ requests' = [requests EXCEPT ![i].pc = "done", ![i].response = outcome]
            /\ handleAnalyzeCatch
    /\ UNCHANGED <<showInput, patientName, doctorName, description, hasConsent>>
    /\ UNCHANGED <<svgVars, clampVars>>

\* the promise of response.json() settles; handleAnalyze runs to its end
JsonSettles(i, body) ==
    /\ requests[i].pc = "json"
    /\ requests' = [requests EXCEPT ![i].pc = "done", ![i].body = body]
    /\ IF ~body.valid \/ Truthy(body.json.error)
       THEN handleAnalyzeCatch
       ELSE /\ analysisResult' = mapResponse(body.json)
            /\ isAnalyzing' = FALSE
    /\ UNCHANGED <<showInput, patientName, doctorName, description, hasConsent>>
    /\ UNCHANGED <<svgVars, clampVars>>

\* the Clear button: InputPanel.handleClear, which calls App.handleClear
Clear ==
    /\ showInput
    /\ ~clearDisabled
    /\ patientName' = ""
    /\ doctorName' = ""
    /\ description' = ""
    /\ hasConsent' = FALSE
    /\ analysisResult' = NoResult
    /\ UNCHANGED <<isAnalyzing, showInput, requests>>
    /\ UNCHANGED <<svgVars, clampVars>>

InitApp ==
    /\ AppInit
    /\ ClampIdle
    /\ detail = Undefined
    /\ estimate = -1
    /\ svgGeometry = NoDetails
    /\ svgReady = FALSE
    /\ markerPositions = NoDetails
    /\ highlightedOrgans = <<>>
    /\ normalizedHighlights = <<>>
    /\ organDetails = NoDetails
    /\ adjustedPositions = <<>>
    /\ gridPositions = <<>>

NextApp ==
    \/ \E text \in FieldTexts : SetPatientName(text)
    \/ \E text \in FieldTexts : SetDoctorName(text)
    \/ \E text \in FieldTexts : SetDescription(text)
    \/ \E checked \in BOOLEAN : SetHasConsent(checked)
    \/ ToggleInput
    \/ Submit
    \/ \E i \in 1..Len(requests), outcome \in FetchOutcomes : FetchSettles(i, outcome)
    \/ \E i \in 1..Len(requests), body \in Bodies : JsonSettles(i, body)
    \/ Clear

SpecApp == InitApp /\ [][NextApp]_vars

----------------------------------------------------------------------------
(* Properties of the curved-connector layout (adjustedPositions) *)

Entries == 1..Len(adjustedPositions)
LabelY(i) == adjustedPositions[i].adjustedPosition.labelY
SourceY(i) == adjustedPositions[i].originalPosition.top
SourceX(i) == adjustedPositions[i].originalPosition.left
Height(i) == adjustedPositions[i].labelHeight
SameSide(i, j) == adjustedPositions[i].isRightSide = adjustedPositions[j].isRightSide

\* source-y order on a side; equal source y keep vocabulary order (the sort is stable)
Before(i, j) == SourceY(i) < SourceY(j) \/ (SourceY(i) = SourceY(j) /\ i < j)

AdjacentInSourceOrder(i, j) ==
    /\ i # j
    /\ SameSide(i, j)
    /\ Before(i, j)
    /\ ~\E k \in Entries \ {i, j} : SameSide(i, k) /\ Before(i, k) /\ Before(k, j)

\* sum of the label heights of the side of entry i, plus 6 per adjacent pair
RequiredHeight(i) ==
    LET hs == SelectSeq([k \in Entries |-> IF SameSide(i, k) THEN Height(k) ELSE 0],
                        LAMBDA h : h > 0)
    IN  Sum(hs) + (Len(hs) - 1) * 6 * Unit

\* the labelY of one side after the first forward pass of resolveSide
ForwardPass(isRightSide) ==
    LET side == sideEntries(adjustedPositions, isRightSide)
        hs == [j \in 1..Len(side) |-> Height(side[j])]
        clamped == [j \in 1..Len(side) |-> clampCenterWithHeight(SourceY(side[j]), hs[j])]
    IN  [ys |-> applyForwardSpacing(clamped, hs, sideSpacing(hs), 2), hs |-> hs]

\* the first forward pass pushed the last label of some side beyond MAX_BOUND
ForwardPassOverflows ==
    \E isRightSide \in BOOLEAN :
        LET f == ForwardPass(isRightSide)
            n == Len(f.ys)
        IN  n >= 2 /\ f.ys[n] + f.hs[n] \div 2 > 92 * Unit

\* C1: on a side whose total required height is at most 84, labels adjacent in source-y
\* order keep centerCurr - centerPrev >= (heightPrev + heightCurr)/2 + 6 in the returned
\* layout.
C1_NoOverlap ==
    \A i, j \in Entries :
        AdjacentInSourceOrder(i, j) /\ RequiredHeight(i) <= 84 * Unit
            => LabelY(j) - LabelY(i) >= (Height(i) + Height(j)) \div 2 + 6 * Unit

\* C2: on one side, a strictly smaller source y gives a strictly smaller final label
\* center.
C2_OrderPreserved ==
    \A i, j \in Entries :
        SameSide(i, j) /\ SourceY(i) < SourceY(j) => LabelY(i) < LabelY(j)

C6_SelfDeclutter ==
    \A i \in Entries : Abs(LabelY(i) - SourceY(i)) >= Height(i)

\* C7: every final label center is at least the base label height 6.5 away from its
\* source y.
C7_BaseDistance ==
    \A i \in Entries : Abs(LabelY(i) - SourceY(i)) >= 65 * Tenth

----------------------------------------------------------------------------
(* Properties of the elbow-connector layout (gridPositions) *)

GridSide(isRightSide) == SelectSeq(gridPositions, LAMBDA e : e.isRightSide = isRightSide)

GridForward(side) == forwardCenters([j \in 1..Len(side) |-> side[j].organPosition.top], <<>>)

\* C4: every returned rowY lies within [6.5, 93.5].
C4_ElbowWithinBounds ==
    \A i \in 1..Len(gridPositions) :
        /\ gridPositions[i].rowY >= 65 * Tenth
        /\ gridPositions[i].rowY <= 935 * Tenth

\* C5: on each side the entries are in source-y order and consecutive centers differ by
\* at least 11, after the forward pass and in the returned rowY.
C5_ElbowSpacing ==
    \A isRightSide \in BOOLEAN :
        LET side == GridSide(isRightSide)
            forward == GridForward(side)
        IN  \A j \in 1..(Len(side) - 1) :
                /\ side[j].organPosition.top <= side[j + 1].organPosition.top
                /\ forward[j + 1] - forward[j] >= 11 * Unit
                /\ side[j + 1].rowY - side[j].rowY >= 11 * Unit
                /\ side[j].rowY < side[j + 1].rowY

\* the forward pass left the last center above maxCenter and the loop moved a center
C5_Witness ==
    \E isRightSide \in BOOLEAN :
        LET side == GridSide(isRightSide)
            forward == GridForward(side)
        IN  /\ Len(side) >= 3
            /\ forward[Len(side)] > 935 * Tenth
            /\ \E j \in 1..Len(side) : side[j].rowY < forward[j]

----------------------------------------------------------------------------
(* Side partition *)

ActiveKeys ==
    {k \in KeySet : isOrganHighlighted(normalizedHighlights, k) /\ k \in DOMAIN markerPositions}

\* C10: every active organ with a marker position has exactly one entry in each layout;
\* the entry is on the right side iff its source x is strictly greater than 55 (curved)
\* resp. 50 (elbow), so a source x equal to the threshold is on the left.
C10_SidePartition ==
    /\ \A k \in ActiveKeys :
        /\ Cardinality({i \in Entries : adjustedPositions[i].organKey = k}) = 1
        /\ Cardinality({i \in 1..Len(gridPositions) : gridPositions[i].organKey = k}) = 1
    /\ \A i \in Entries :
        /\ adjustedPositions[i].isRightSide <=> SourceX(i) > 55 * Unit
        /\ Cardinality({r \in BOOLEAN :
               \E j \in 1..Len(sideEntries(adjustedPositions, r)) :
                   sideEntries(adjustedPositions, r)[j] = i}) = 1
    /\ \A i \in 1..Len(gridPositions) :
        /\ gridPositions[i].isRightSide <=> gridPositions[i].organPosition.left > 50 * Unit
        /\ gridPositions[i].columnX = IF gridPositions[i].isRightSide THEN 27 * Unit ELSE 73 * Unit

\* an organ exactly on each threshold: x = 55 is left in the curved variant and right in
\* the elbow variant, x = 50 is left in both
C10_Witness ==
    /\ \E i \in Entries : SourceX(i) = 55 * Unit /\ ~adjustedPositions[i].isRightSide
    /\ \E i \in 1..Len(gridPositions) :
        gridPositions[i].organPosition.left = 55 * Unit /\ gridPositions[i].isRightSide
    /\ \E i \in 1..Len(gridPositions) :
        gridPositions[i].organPosition.left = 50 * Unit /\ ~gridPositions[i].isRightSide
    /\ \E i \in Entries : SourceX(i) = 50 * Unit /\ ~adjustedPositions[i].isRightSide

----------------------------------------------------------------------------
(* Plan membership *)

\* some supplied identifier, lower-cased, contains the key
Highlighted(k) ==
    \E i \in 1..Len(highlightedOrgans) : includes(toLowerCase(highlightedOrgans[i]), k)

CurvedKeys == {adjustedPositions[i].organKey : i \in Entries}
GridKeys == {gridPositions[i].organKey : i \in 1..Len(gridPositions)}

\* C11: each layout has an entry for a vocabulary key iff the key is highlighted and has
\* a marker position; a highlighted key without a marker position has no entry; no key
\* has two entries.
C11_PlanMembership ==
    /\ \A k \in KeySet :
        /\ k \in CurvedKeys <=> (Highlighted(k) /\ k \in DOMAIN markerPositions)
        /\ k \in GridKeys <=> (Highlighted(k) /\ k \in DOMAIN markerPositions)
    /\ CurvedKeys \subseteq KeySet
    /\ GridKeys \subseteq KeySet
    /\ Cardinality(CurvedKeys) = Len(adjustedPositions)
    /\ Cardinality(GridKeys) = Len(gridPositions)

\* the markers are measured, one highlighted organ has no marker position and is left
\* out, another one has its entry
C11_Witness ==
    /\ svgReady
    /\ markerPositions = svgGeometry
    /\ \E k \in KeySet : Highlighted(k) /\ k \notin DOMAIN markerPositions
    /\ Len(adjustedPositions) = 1
    /\ Len(gridPositions) = 1

----------------------------------------------------------------------------
(* Side independence *)

\* the marker positions of the organs of one side only, for a side threshold
SideMarkers(threshold, isRightSide) ==
    [k \in {m \in DOMAIN markerPositions : (markerPositions[m].left > threshold) = isRightSide}
        |-> markerPositions[k]]

\* the details an organ of the given markers can read, under its key or its label
SideDetails(markers) ==
    [d \in {e \in DOMAIN organDetails :
               \E k \in DOMAIN markers : e = k \/ e = toLowerCase(ORGAN_LABELS[k])}
        |-> organDetails[d]]

CurvedSide(isRightSide) == SelectSeq(adjustedPositions, LAMBDA e : e.isRightSide = isRightSide)

\* C12: the entries of one side (their label centers included) are the ones the layout
\* gives when the regions of the other side, and their texts, are absent; so no
\* addition, removal, move or change of text on the other side changes them.  Both
\* variants.
C12_SideIndependence ==
    \A isRightSide \in BOOLEAN :
        /\ LET markers == SideMarkers(55 * Unit, isRightSide)
           IN  CurvedSide(isRightSide)
                   = AdjustedPositions(normalizedHighlights, markers, SideDetails(markers))
        /\ GridSide(isRightSide)
               = GridPositions(normalizedHighlights, SideMarkers(50 * Unit, isRightSide))

\* one side holds two labels, one of them moved by the solver, while the other side
\* holds a label with a detail text; the elbow layout has both sides too
C12_Witness ==
    /\ \E i, j, k \in Entries :
        /\ i # j
        /\ SameSide(i, j)
        /\ ~SameSide(i, k)
        /\ LabelY(j) # clampCenterWithHeight(SourceY(j), Height(j))
        /\ Height(k) > 65 * Tenth
    /\ Len(GridSide(TRUE)) >= 2
    /\ Len(GridSide(FALSE)) >= 2

----------------------------------------------------------------------------
(* Spacing of the curved variant *)

\* the label heights of one side in the order resolveSide sorts them
SideHeights(isRightSide) ==
    LET side == sideEntries(adjustedPositions, isRightSide)
    IN  [j \in 1..Len(side) |-> Height(side[j])]

\* C13: the spacing resolveSide uses on a side of n >= 1 labels is 6 when the sum of the
\* heights plus 6 per adjacent pair is at most 84; otherwise it is the larger of 1.5 and
\* (84 - sum of heights) / max(1, n - 1); it is never negative and never above 6, and
\* the divisor is never zero.
C13_SpacingCompression ==
    \A isRightSide \in BOOLEAN :
        LET hs == SideHeights(isRightSide)
            n == Len(hs)
            divisor == IF n - 1 > 1 THEN n - 1 ELSE 1
            spacing == sideSpacing(hs)
        IN  n >= 1 =>
                /\ divisor # 0
                /\ Sum(hs) + (n - 1) * 6 * Unit <= 84 * Unit => spacing = 6 * Unit
                /\ Sum(hs) + (n - 1) * 6 * Unit > 84 * Unit =>
                       /\ spacing >= 15 * Tenth
                       /\ spacing * divisor >= 84 * Unit - Sum(hs)
                       /\ \/ spacing = 15 * Tenth
                          \/ spacing * divisor = 84 * Unit - Sum(hs)
                /\ spacing >= 0
                /\ spacing <= 6 * Unit

\* a side of two labels that needs more than 84 gets a spacing strictly between 1.5
\* and 6
C13_WitnessCompressed ==
    \E isRightSide \in BOOLEAN :
        LET hs == SideHeights(isRightSide)
        IN  /\ Len(hs) = 2
            /\ sideSpacing(hs) > 15 * Tenth
            /\ sideSpacing(hs) < 6 * Unit

\* C14: on a side whose required height exceeds 84 while the sum of its label heights
\* is at most 84, labels adjacent in source-y order do not overlap in the returned
\* layout: (centerCurr - centerPrev) - (heightPrev + heightCurr)/2 >= 0.
C14_DegradedFloor ==
    \A i, j \in Entries :
        /\ AdjacentInSourceOrder(i, j)
        /\ RequiredHeight(i) > 84 * Unit
        /\ RequiredHeight(i) - (Cardinality({k \in Entries : SameSide(i, k)}) - 1) * 6 * Unit
               <= 84 * Unit
        => (LabelY(j) - LabelY(i)) - (Height(i) + Height(j)) \div 2 >= 0

----------------------------------------------------------------------------
(* Degenerate inputs *)

\* the positions at the end of resolveSide(true); resolveSide(false) for the current
\* props and markers
Resolved == ResolvedPositions(normalizedHighlights, markerPositions, organDetails)

\* C15: with no active region both layouts are empty; an item alone on its side has, at
\* the end of resolveSide, the center min(max(source y, 8 + height/2), 92 - height/2),
\* and in the elbow variant the rowY min(max(source y, 6.5), 93.5): its source y
\* clamped, without any spacing adjustment.
C15_DegenerateInputs ==
    /\ (\A k \in KeySet : ~(Highlighted(k) /\ k \in DOMAIN markerPositions))
           => adjustedPositions = <<>> /\ gridPositions = <<>> /\ Resolved = <<>>
    /\ Len(Resolved) = Len(adjustedPositions)
    /\ \A i \in Entries :
           (\A j \in Entries \ {i} : ~SameSide(i, j))
               => LET half == Height(i) \div 2
                  IN  Resolved[i].adjustedPosition.labelY
                          = Min(Max(SourceY(i), 8 * Unit + half), 92 * Unit - half)
    /\ \A isRightSide \in BOOLEAN :
           LET side == GridSide(isRightSide)
           IN  Len(side) = 1
                   => side[1].rowY
                          = Min(Max(side[1].organPosition.top, 65 * Tenth), 935 * Tenth)

\* an item alone on its side in both variants, with a source above the upper limit of
\* its center, while the other side holds several items
C15_WitnessAlone ==
    /\ \E i \in Entries :
        /\ \A j \in Entries \ {i} : ~SameSide(i, j)
        /\ SourceY(i) < 8 * Unit + Height(i) \div 2
        /\ Len(adjustedPositions) >= 3
    /\ \E isRightSide \in BOOLEAN :
        /\ Len(GridSide(isRightSide)) = 1
        /\ GridSide(isRightSide)[1].organPosition.top < 65 * Tenth

\* no region is active although organs are supplied: both layouts are empty
C15_WitnessEmpty ==
    /\ svgReady
    /\ Len(highlightedOrgans) >= 1
    /\ adjustedPositions = <<>>
    /\ gridPositions = <<>>

----------------------------------------------------------------------------
(* Activation by name *)

\* sub is a non-empty substring of s
IsPartOf(sub, s) == Len(sub) > 0 /\ includes(s, sub)

\* C16: a supplied name that, lower-cased, is a vocabulary key or a non-empty part of one
\* ("lung" or "lungs" for the key lungs, in any letter case) activates that key: the
\* organ is highlighted and, when it has a marker position, labelled in both layouts.
C16_NameVariation ==
    \A i \in 1..Len(highlightedOrgans) : \A k \in KeySet :
        IsPartOf(toLowerCase(highlightedOrgans[i]), k)
            => /\ isOrganHighlighted(normalizedHighlights, k)
               /\ k \in DOMAIN markerPositions => k \in CurvedKeys /\ k \in GridKeys

\* the supplied identifiers, lower-cased, that contain some vocabulary key
KnownNames ==
    SelectSeq([i \in 1..Len(highlightedOrgans) |-> toLowerCase(highlightedOrgans[i])],
              LAMBDA name : \E k \in KeySet : includes(name, k))

----------------------------------------------------------------------------
(* Anchors and connectors *)

LabelX(i) == adjustedPositions[i].adjustedPosition.labelX

C19_ConnectorEndpoints ==
    /\ Len(CurvedMarkers(adjustedPositions)) = Len(adjustedPositions)
    /\ Len(GridMarkers(gridPositions)) = Len(gridPositions)
    /\ \A i \in Entries :
        LET m == CurvedMarkers(adjustedPositions)[i]
            source == markerPositions[adjustedPositions[i].organKey]
        IN  /\ m.path.start = <<source.left, source.top>>
            /\ m.path.end = <<LabelX(i), LabelY(i)>>
            /\ m.label = [left |-> LabelX(i), top |-> LabelY(i)]
            /\ m.marker = source
    /\ \A i \in 1..Len(gridPositions) :
        LET m == GridMarkers(gridPositions)[i]
            e == gridPositions[i]
            source == markerPositions[e.organKey]
        IN  /\ Len(m.path) = 3
            /\ m.path[1] = <<e.columnX, e.rowY>>
            /\ 2 * m.path[2][1] = source.left + e.columnX
            /\ m.path[2][2] = m.path[1][2]
            /\ m.path[3] = <<source.left, source.top>>
            /\ m.card.top = e.rowY
            /\ m.marker = source

\* both layouts hold a label that the solver moved away from the height of its source
C19_Witness ==
    /\ \E i \in Entries : LabelY(i) # SourceY(i)
    /\ \E i \in 1..Len(gridPositions) :
        /\ gridPositions[i].rowY # gridPositions[i].organPosition.top
        /\ gridPositions[i].isRightSide
    /\ \E i \in 1..Len(gridPositions) : ~gridPositions[i].isRightSide

\* C20: in the curved variant the control point of every connector has y equal to the
\* mean of source y and label y, and x equal to the midpoint of source x and label x
\* displaced by 8 toward the label: to the right on the left side, to the left on the
\* right side.
C20_ControlPoint ==
    \A i \in Entries :
        LET control == CurvedMarkers(adjustedPositions)[i].path.control
            towardLabel == IF LabelX(i) > SourceX(i) THEN 1 ELSE -1
        IN  /\ 2 * control[2] = SourceY(i) + LabelY(i)
            /\ LabelX(i) # SourceX(i)
            /\ 2 * control[1] = SourceX(i) + LabelX(i) + towardLabel * 16 * Unit
            /\ adjustedPositions[i].isRightSide <=> towardLabel = -1

\* a layout with a label on each side, each away from the height of its source
C20_Witness ==
    \E i, j \in Entries :
        /\ adjustedPositions[i].isRightSide
        /\ ~adjustedPositions[j].isRightSide
        /\ LabelY(i) # SourceY(i)
        /\ LabelY(j) # SourceY(j)

----------------------------------------------------------------------------
(* resolveSide alone, and the de-collision pass *)

ResolvedY(i) == Resolved[i].adjustedPosition.labelY

\* C21: at the end of resolveSide, before the de-collision pass, on every side whose
\* total required height is at most 84, labels adjacent in source-y order keep
\* centerCurr - centerPrev >= (heightPrev + heightCurr)/2 + 6 and every extent lies
\* within [8, 92].
C21_ResolvedSpacingAndBounds ==
    /\ \A i, j \in Entries :
        AdjacentInSourceOrder(i, j) /\ RequiredHeight(i) <= 84 * Unit
            => ResolvedY(j) - ResolvedY(i) >= (Height(i) + Height(j)) \div 2 + 6 * Unit
    /\ \A i \in Entries :
        RequiredHeight(i) <= 84 * Unit
            => /\ ResolvedY(i) - Height(i) \div 2 >= 8 * Unit
               /\ ResolvedY(i) + Height(i) \div 2 <= 92 * Unit

\* C22: a label whose center at the end of resolveSide is less than 6.5 from its source
\* y is moved to source y - 7.5 if it was strictly above the source and to source y + 7.5
\* otherwise (also when it was exactly on it), then clamped by its height; any other
\* label is only clamped.  A single item with source y 50 and height 6.5 ends at 57.5.
C22_DeCollisionDirection ==
    /\ \A i \in Entries :
        LET distance == Abs(ResolvedY(i) - SourceY(i))
            moved == IF distance >= 65 * Tenth THEN ResolvedY(i)
                     ELSE IF ResolvedY(i) < SourceY(i) THEN SourceY(i) - 75 * Tenth
                     ELSE SourceY(i) + 75 * Tenth
            half == Height(i) \div 2
        IN  LabelY(i) = IF moved - half < 8 * Unit THEN 8 * Unit + half
                        ELSE IF moved + half > 92 * Unit THEN 92 * Unit - half
                        ELSE moved
    /\ \A i \in Entries :
        Len(adjustedPositions) = 1 /\ SourceY(i) = 50 * Unit /\ Height(i) = 65 * Tenth
            => LabelY(i) = 575 * Tenth

\* a single item with source y 50 and height 6.5: resolveSide leaves it on its source and
\* the de-collision pass moves it down to 57.5
C22_Witness ==
    /\ Len(adjustedPositions) = 1
    /\ SourceY(1) = 50 * Unit
    /\ Height(1) = 65 * Tenth
    /\ ResolvedY(1) = 50 * Unit
    /\ LabelY(1) = 575 * Tenth

\* the centers of one side in resolveSide when neither applyBackwardSpacing nor the
\* second applyForwardSpacing is called: clamp, forward pass, the two uniform shifts
ShiftsOnly(isRightSide) ==
    LET side == sideEntries(adjustedPositions, isRightSide)
        n == Len(side)
        hs == [j \in 1..n |-> Height(side[j])]
        forward == ForwardPass(isRightSide).ys
        overflow == forward[n] + hs[n] \div 2 - 92 * Unit
        up == IF overflow > 0 THEN [j \in 1..n |-> forward[j] - overflow] ELSE forward
        underflow == 8 * Unit - (up[1] - hs[1] \div 2)
        down == IF underflow > 0 THEN [j \in 1..n |-> up[j] + underflow] ELSE up
    IN  [hs |-> hs, spacing |-> sideSpacing(hs), overflow |-> overflow, up |-> up,
         underflow |-> underflow, down |-> down]

\* C24: in resolveSide, applyBackwardSpacing after the overflow shift changes no center
\* and the second applyForwardSpacing after the underflow shift changes no center, so
\* the centers at the end of resolveSide are the ones obtained without the two calls.
C24_SpacingPassesIdle ==
    \A isRightSide \in BOOLEAN :
        LET side == sideEntries(adjustedPositions, isRightSide)
            n == Len(side)
            s == ShiftsOnly(isRightSide)
        IN  n >= 1 =>
                /\ s.overflow > 0 => applyBackwardSpacing(s.up, s.hs, s.spacing, n - 1) = s.up
                /\ s.underflow > 0 => applyForwardSpacing(s.down, s.hs, s.spacing, 2) = s.down
                /\ \A j \in 1..n :
                       ResolvedY(side[j]) = clampCenterWithHeight(s.down[j], s.hs[j])

\* a side of three labels on which the overflow shift and then the underflow shift were
\* both applied, so both passes ran
C24_Witness ==
    \E isRightSide \in BOOLEAN :
        /\ Len(sideEntries(adjustedPositions, isRightSide)) >= 3
        /\ ShiftsOnly(isRightSide).overflow > 0
        /\ ShiftsOnly(isRightSide).underflow > 0

----------------------------------------------------------------------------
(* The passes of adjustSide *)

\* source y clamped to [6.5, 93.5]
ClampedTop(e) == Min(Max(e.organPosition.top, 65 * Tenth), 935 * Tenth)

\* C23: in the elbow variant the forward pass takes the items of a side in ascending
\* source y; the first center is its source y clamped to [6.5, 93.5], each later center
\* is the larger of its clamped source y and the previous center + 11; when the last
\* center is at most 93.5 these are the returned rowY.  Source y 10 and 12 give 10, 21.
C23_ElbowForwardPass ==
    \A isRightSide \in BOOLEAN :
        LET side == GridSide(isRightSide)
            forward == GridForward(side)
            n == Len(side)
        IN  /\ Len(forward) = n
            /\ \A j \in 1..(n - 1) : side[j].organPosition.top <= side[j + 1].organPosition.top
            /\ n >= 1 => forward[1] = ClampedTop(side[1])
            /\ \A j \in 2..n :
                   forward[j] = Max(ClampedTop(side[j]), forward[j - 1] + 11 * Unit)
            /\ (n >= 1 /\ forward[n] <= 935 * Tenth)
                   => \A j \in 1..n : side[j].rowY = forward[j]
            /\ (n = 2 /\ side[1].organPosition.top = 10 * Unit
                       /\ side[2].organPosition.top = 12 * Unit)
                   => side[1].rowY = 10 * Unit /\ side[2].rowY = 21 * Unit

\* two items of one side with source y 10 and 12 are returned at 10 and 21
C23_Witness ==
    \E isRightSide \in BOOLEAN :
        LET side == GridSide(isRightSide)
        IN  /\ Len(side) = 2
            /\ side[1].organPosition.top = 10 * Unit
            /\ side[2].organPosition.top = 12 * Unit
            /\ side[1].rowY = 10 * Unit
            /\ side[2].rowY = 21 * Unit

\* C25: in the elbow variant, whenever the forward pass leaves the last center above
\* 93.5, the overflow loop leaves the center of the last item unchanged; it only
\* lowers centers of earlier items, by at most the overflow in total, and no center
\* goes below 6.5.
C25_OverflowLoop ==
    \A isRightSide \in BOOLEAN :
        LET side == GridSide(isRightSide)
            forward == GridForward(side)
            n == Len(side)
        IN  (n >= 1 /\ forward[n] > 935 * Tenth)
                => /\ n >= 2
                   /\ side[n].rowY = forward[n]
                   /\ forward[n] = forward[n - 1] + 11 * Unit
                   /\ \A j \in 1..n : side[j].rowY <= forward[j]
                   /\ \A j \in 1..n : side[j].rowY >= 65 * Tenth
                   /\ Sum([j \in 1..n |-> forward[j] - side[j].rowY])
                          <= forward[n] - 935 * Tenth

\* the forward pass overflowed and the loop lowered two or more earlier centers, using
\* up the whole overflow
C25_Witness ==
    \E isRightSide \in BOOLEAN :
        LET side == GridSide(isRightSide)
            forward == GridForward(side)
            n == Len(side)
        IN  /\ n >= 3
            /\ forward[n] > 935 * Tenth
            /\ Cardinality({j \in 1..n : side[j].rowY < forward[j]}) >= 2
            /\ Sum([j \in 1..n |-> forward[j] - side[j].rowY]) = forward[n] - 935 * Tenth

\* the vocabulary keys matched by the supplied identifiers, once each, in vocabulary order
MatchedKeys == SelectSeq(OrganKeys, Highlighted)

\* C27: both layouts are the ones computed from the matched vocabulary keys alone (each
\* once, in vocabulary order), so two lists that match the same keys - a permutation, a
\* repeated identifier, two identifiers for one key - give the same entries in the same
\* order at the same positions.
C27_ListIndependence ==
    /\ adjustedPositions = AdjustedPositions(MatchedKeys, markerPositions, organDetails)
    /\ gridPositions = GridPositions(MatchedKeys, markerPositions)
    /\ \A i, j \in Entries :
        LET rank(k) == CHOOSE r \in 1..Len(OrganKeys) : OrganKeys[r] = k
        IN  i < j => rank(adjustedPositions[i].organKey) < rank(adjustedPositions[j].organKey)

\* a list that is not in vocabulary order, repeats an identifier and has two identifiers
\* for one key, with one entry per matched key
C27_Witness ==
    /\ Len(highlightedOrgans) = 4
    /\ highlightedOrgans[1] = highlightedOrgans[4]
    /\ Len(MatchedKeys) = 2
    /\ Len(adjustedPositions) = 2
    /\ Len(gridPositions) = 2

----------------------------------------------------------------------------
(* BodyOrganSvg and OrganGridTable, given the same highlightedOrgans *)

\* the keys whose row OrganGridTable marks as highlighted
TableKeys ==
    LET rows == organRows(highlightedOrgans)
    IN  {rows[i].organKey : i \in {j \in 1..Len(rows) : rows[j].isHighlighted}}

\* the keys BodyOrganSvg marks as highlighted
BodyKeys == {k \in KeySet : isOrganHighlighted(normalizedHighlights, k)}

\* the identifier, lower-cased, is a substring of some shared key without being the key
ProperPartOfKey(name) ==
    \E k \in KeySet : toLowerCase(name) # k /\ includes(k, toLowerCase(name))

\* C28: every key BodyOrganSvg marks as highlighted is marked by OrganGridTable too; on
\* the eight shared keys the two mark the same set whenever every supplied identifier is
\* non-empty and is not a proper substring of a key.
C28_TableCoversBody ==
    /\ BodyKeys \subseteq TableKeys
    /\ (\A i \in 1..Len(highlightedOrgans) :
            Len(highlightedOrgans[i]) > 0 /\ ~ProperPartOfKey(highlightedOrgans[i]))
           => TableKeys \cap KeySet = BodyKeys

\* "Lung" is a proper part of the key lungs: the table marks lungs and heart, the body
\* only heart
C28_Witness ==
    /\ \E i \in 1..Len(highlightedOrgans) : ProperPartOfKey(highlightedOrgans[i])
    /\ "lungs" \in TableKeys \ BodyKeys
    /\ "heart" \in TableKeys \cap BodyKeys

\* an empty identifier makes the table mark all its rows
C28_WitnessEmptyName ==
    /\ \E i \in 1..Len(highlightedOrgans) : highlightedOrgans[i] = ""
    /\ Cardinality(TableKeys) = Len(ORGAN_DEFINITIONS)
    /\ BodyKeys = {"liver"}

----------------------------------------------------------------------------
(* clampCenterWithHeight *)

ClampedTopEdge == argClamped.value - argHeight \div 2
ClampedBottomEdge == argClamped.value + argHeight \div 2
FitsSpan == argHeight <= MAX_BOUND - MIN_BOUND

\* C26 as stated: for every height the returned center has its top edge >= 8; its
\* bottom edge is <= 92 exactly when the height is at most 84; and clamping the returned
\* center again changes nothing when the height is at most 84.
C26_ClampAsStated ==
    argClamped.called =>
        /\ ClampedTopEdge >= MIN_BOUND
        /\ (ClampedBottomEdge <= MAX_BOUND) <=> FitsSpan
        /\ FitsSpan => clampCenterWithHeight(argClamped.value, argHeight) = argClamped.value

\* C26 (amended): for a height of at most 84 the returned extent lies within [8, 92] and
\* clamping again changes nothing; for a taller height the top edge is exactly 8 (bottom
\* beyond 92) when the argument's top edge was below 8, and otherwise the bottom edge is
\* exactly 92 (top edge below 8).
C26_ClampByHeight ==
    argClamped.called =>
        /\ FitsSpan =>
              /\ ClampedTopEdge >= MIN_BOUND
              /\ ClampedBottomEdge <= MAX_BOUND
              /\ clampCenterWithHeight(argClamped.value, argHeight) = argClamped.value
        /\ ~FitsSpan =>
              IF argCenter - argHeight \div 2 < MIN_BOUND
              THEN ClampedTopEdge = MIN_BOUND /\ ClampedBottomEdge > MAX_BOUND
              ELSE ClampedBottomEdge = MAX_BOUND /\ ClampedTopEdge < MIN_BOUND

\* a label taller than the span whose bottom edge is put on 92: its top edge is beyond 8
C26_Witness ==
    /\ argClamped.called
    /\ ~FitsSpan
    /\ argClamped.value # argCenter
    /\ ClampedBottomEdge = MAX_BOUND
    /\ ClampedTopEdge < MIN_BOUND

\* a label that fits the span, moved by the clamp
C26_WitnessFits ==
    /\ argClamped.called
    /\ FitsSpan
    /\ argClamped.value # argCenter
    /\ ClampedTopEdge >= MIN_BOUND
    /\ ClampedBottomEdge <= MAX_BOUND

----------------------------------------------------------------------------
(* App.handleAnalyze and the form of InputPanel *)

\* the request ended with an OK status and a JSON body without a (non-empty) error
Succeeded(r) ==
    /\ r.pc = "done"
    /\ r.response = "ok"
    /\ r.body.valid
    /\ ~Truthy(r.body.json.error)

InFlight == {i \in 1..Len(requests) : requests[i].pc # "done"}

\* request i settles in this step
Settles(i) == requests[i].pc # "done" /\ requests'[i].pc = "done"

\* C29: a step that starts an analysis leaves isAnalyzing true; a step in which a request
\* settles (success, non-OK status, error in the payload, rejected promise) leaves
\* isAnalyzing false, leaves analysisResult non-null only if that request succeeded, and
\* leaves it null if the request failed, whatever was displayed before.
C29_AnalysisLifecycle ==
    [][/\ Len(requests') > Len(requests) => isAnalyzing'
       /\ \A i \in 1..Len(requests) :
             Settles(i) =>
               /\ ~isAnalyzing'
               /\ analysisResult'.present => Succeeded(requests'[i])
               /\ ~Succeeded(requests'[i]) => analysisResult' = NoResult]_vars

\* a request that was started while a result was displayed has failed: nothing is
\* displayed and the analysis is over
C29_Witness ==
    \E i \in 1..Len(requests) :
        /\ requests[i].pc = "done"
        /\ requests[i].displayed
        /\ ~Succeeded(requests[i])
        /\ InFlight = {}
        /\ i = Len(requests)
        /\ analysisResult = NoResult
        /\ ~isAnalyzing
        /\ hasConsent

\* C30: at most one request is in flight, and isAnalyzing is true exactly while one is;
\* while isAnalyzing is true no step starts a request and analysisResult changes only
\* when the latest request settles (so neither Clear nor an older response changes it);
\* a step that starts a request is taken with consent checked; Clear leaves consent
\* unchecked.
C30_SingleFlight ==
    /\ [](Cardinality(InFlight) <= 1 /\ (isAnalyzing <=> InFlight # {}))
    /\ [][/\ isAnalyzing => Len(requests') = Len(requests)
          /\ isAnalyzing /\ analysisResult' # analysisResult => Settles(Len(requests))
          /\ \A i \in 1..Len(requests) : Settles(i) => i = Len(requests)
          /\ Len(requests') > Len(requests) => hasConsent
          /\ Clear => ~hasConsent']_vars

\* a second request is in flight while the result of the first is displayed
C30_Witness ==
    /\ isAnalyzing
    /\ analysisResult.present
    /\ Len(requests) = 2
    /\ Succeeded(requests[1])
    /\ InFlight = {2}

----------------------------------------------------------------------------
(* estimateLabelHeight *)

\* length of a text after collapsing whitespace runs and trimming: the characters that
\* are not whitespace, plus one per whitespace run that has text on both sides
CleanLength(text) ==
    LET n == Len(text)
        isText(i) == ~IsWhitespace(CharAt(text, i))
    IN  Cardinality({i \in 1..n : isText(i)})
        + Cardinality({i \in 2..n : /\ ~isText(i) /\ isText(i - 1)
                                    /\ \E j \in (i + 1)..n : isText(j)})

Ceiling(n, d) == CHOOSE k \in 0..n : d * k >= n /\ d * (k - 1) < n

\* C9: the estimate is 6.5 for an absent, empty or whitespace-only text, otherwise
\* 6.5 + 3.2 * ceil(n / 34) for the clean length n; it is never below 6.5 and does not
\* decrease when the clean length grows by one.
C9_EstimateFormula ==
    estimate # -1 =>
        LET n == IF detail.defined THEN CleanLength(detail.str) ELSE 0
        IN  /\ n = 0 => estimate = 65 * Tenth
            /\ n > 0 => estimate = 65 * Tenth + 32 * Tenth * Ceiling(n, 34)
            /\ estimate >= 65 * Tenth
            /\ estimate <= estimateLabelHeight(Str(Rep("a", n + 1)))

\* a padded text of clean length 70 is estimated at 3 lines, 16.1
C9_Witness ==
    /\ detail.defined
    /\ Len(detail.str) > 70
    /\ CleanLength(detail.str) = 70
    /\ estimate = 161 * Tenth

====
